---- MODULE Spec2Model ----
(***************************************************************************)
(* AXE parsing-expression combinators (headers/axe): terminal rules of     *)
(* axe_terminal.h and the operator algebra of axe_composite_function.h,    *)
(* driven by a caller that owns an input range and the storage the binary  *)
(* read rules are bound to.                                                *)
(*                                                                         *)
(* A position is an offset 0..Len(input) into the caller's element buffer; *)
(* the element under position p is input[p + 1].  A rule is a record       *)
(* [kind, p, sub, arg]: its class, its predicate (if any), its embedded    *)
(* sub-rules and its integer members.                                      *)
(***************************************************************************)
EXTENDS Integers, Sequences, FiniteSets, TLC

VARIABLES input, begin, end, pc, expr, rule, res, v, arr, buf, seq, log

vars == <<input, begin, end, pc, expr, rule, res, v, arr, buf, seq, log>>

----------------------------------------------------------------------------
(* Bounds of the model *)

MaxLen == 3
MaxVarSize == 4
MaxOcc == 3
ArrLen == 2
ElemSize == 2
SizeBits == 16
MaxBuf == 3
VarSize == 2

(* Elements: 'a' = 97, '1' = 49, '=' = 61; 0 is the byte a fresh variable holds *)
Alphabet == {97, 49, 61}
Rate12 == <<114, 97, 116, 101, 61, 49, 50>>
Aaaa == <<97, 97, 97, 97>>

RECURSIVE SeqsUpTo(_, _)
SeqsUpTo(S, n) ==
    IF n = 0 THEN {<<>>}
    ELSE LET shorter == SeqsUpTo(S, n - 1)
         IN  shorter \cup {Append(s, x) : s \in {t \in shorter : Len(t) = n - 1}, x \in S}

Inputs == SeqsUpTo(Alphabet, MaxLen) \cup {Rate12, Aaaa}

Zeros(n) == [k \in 1..n |-> 0]

----------------------------------------------------------------------------
(* Result model *)

At(i) == input[i + 1]

make_result2(matched, position) ==
    [matched |-> matched, position |-> position, start |-> position]

make_result3(matched, position, start) ==
    [matched |-> matched,
     position |-> IF matched THEN position ELSE start,
     start |-> start]

(* classification predicates of the C locale *)
is_alpha(c) == c \in (65..90) \cup (97..122)
is_digit(c) == c \in 48..57
is_alnum(c) == is_alpha(c) \/ is_digit(c)

Pred(p, c) ==
    CASE p = "is_alpha" -> is_alpha(c)
      [] p = "is_alnum" -> is_alnum(c)
      [] p = "is_digit" -> is_digit(c)

----------------------------------------------------------------------------
(* Terminal rules.  Each takes the members of the rule object and the      *)
(* range (i1, i2) and yields a result; the binary read rules also take the *)
(* storage they are bound to and yield its new contents.                   *)

BoolVal(n) == n # 0

r_bool_t(b, i1, i2) == make_result2(BoolVal(b), i1)

r_empty_t(i1, i2) == make_result2(TRUE, i1)

r_char_t(t, i1, i2) ==
    IF i1 # i2 THEN make_result3(t = At(i1), i1 + 1, i1)
    ELSE make_result2(FALSE, i1)

r_token_t(token_, i1, i2) ==
    IF i1 # i2 THEN make_result3(At(i1) = token_, i1 + 1, i1)
    ELSE make_result2(FALSE, i1)

(* the comparison loop shared by r_bin_t and r_str_t: t is the byte image  *)
(* or the literal, s the index reached, i the cursor                       *)
RECURSIVE MatchLoop(_, _, _, _, _)
MatchLoop(t, matched, s, i, i2) ==
    IF matched /\ s < Len(t) /\ i # i2
    THEN MatchLoop(t, t[s + 1] = At(i), s + 1, i + 1, i2)
    ELSE [matched |-> matched, s |-> s, i |-> i]

r_bin_t(t, i1, i2) ==
    LET l == MatchLoop(t, i1 # i2, 0, i1, i2)
    IN  make_result3(l.matched /\ l.s = Len(t), l.i, i1)

r_str_t(str_, i1, i2) ==
    IF str_ = <<>> THEN make_result2(TRUE, i1)
    ELSE LET l == MatchLoop(str_, i1 # i2, 0, i1, i2)
         IN  make_result3(l.matched /\ l.s = Len(str_), l.i, i1)

r_pred_t(pred_, i1, i2) ==
    IF i1 # i2 THEN make_result3(Pred(pred_, At(i1)), i1 + 1, i1)
    ELSE make_result2(FALSE, i1)

RECURSIVE PredRun(_, _, _)
PredRun(pred_, in, i2) ==
    IF in # i2 /\ Pred(pred_, At(in)) THEN PredRun(pred_, in + 1, i2) ELSE in

(* r_predstr_t with the match flag forced: the run may be empty *)
r_predstr_t_any(pred_, i1, i2) ==
    LET in == PredRun(pred_, i1, i2)
    IN  make_result3(TRUE, in, i1)

r_predstr_t(pred_, i1, i2) ==
    LET in == PredRun(pred_, i1, i2)
    IN  make_result3(in # i1, in, i1)

RECURSIVE PredRunN(_, _, _, _, _)
PredRunN(pred_, max_occurrence_, count, in, i2) ==
    IF count < max_occurrence_ /\ in # i2 /\ Pred(pred_, At(in))
    THEN PredRunN(pred_, max_occurrence_, count + 1, in + 1, i2)
    ELSE [count |-> count, in |-> in]

r_predstr_n_t(pred_, min_occurrence_, max_occurrence_, i1, i2) ==
    LET l == PredRunN(pred_, max_occurrence_, 0, i1, i2)
    IN  make_result3(l.count >= min_occurrence_, l.in, i1)

(* r_var_t: c is the byte image of the referenced variable *)
RECURSIVE VarLoop(_, _, _, _)
VarLoop(c, s, i, i2) ==
    IF s < Len(c) /\ i # i2
    THEN VarLoop([c EXCEPT ![s + 1] = At(i)], s + 1, i + 1, i2)
    ELSE [c |-> c, s |-> s, i |-> i]

(* r_var_t reading into a temporary and storing only a complete value *)
r_var_t_atomic(t, i1, i2) ==
    LET l == VarLoop(t, 0, i1, i2)
    IN  [r |-> make_result2(l.s = Len(t), l.i),
         t |-> IF l.s = Len(t) THEN l.c ELSE t]

r_var_t(t, i1, i2) ==
    LET l == VarLoop(t, 0, i1, i2)
    IN  [r |-> make_result2(l.s = Len(t), l.i), t |-> l.c]

RECURSIVE ArrayLoop(_, _, _, _, _)
ArrayLoop(buf_, matched, s, i, i2) ==
    IF matched /\ s < Len(buf_) /\ i # i2
    THEN LET tmp == r_var_t(buf_[s + 1], i, i2)
         IN  ArrayLoop([buf_ EXCEPT ![s + 1] = tmp.t], tmp.r.matched,
                       s + 1, tmp.r.position, i2)
    ELSE [buf_ |-> buf_, s |-> s, i |-> i]

r_array_t(buf_, i1, i2) ==
    LET l == ArrayLoop(buf_, TRUE, 0, i1, i2)
    IN  [r |-> make_result2(l.s = Len(buf_), l.i), t |-> l.buf_]

(* r_sequence_t: size is sizeof(T) of the container's value_type; the      *)
(* local T t is filled by r_var_t and appended only when fully read        *)
RECURSIVE SequenceLoop(_, _, _, _, _, _, _)
SequenceLoop(buf_, size, max_occurrence_, matched, s, i1, i2) ==
    IF matched /\ i1 # i2 /\ s < max_occurrence_
    THEN LET r == r_var_t(Zeros(size), i1, i2)
         IN  SequenceLoop(IF r.r.matched THEN Append(buf_, r.t) ELSE buf_,
                          size, max_occurrence_, r.r.matched, s + 1,
                          r.r.position, i2)
    ELSE [buf_ |-> buf_, i1 |-> i1]

r_sequence_t(buf_, size, min_occurrence_, max_occurrence_, i1, i2) ==
    LET l == SequenceLoop(buf_, size, max_occurrence_, TRUE, 0, i1, i2)
    IN  [r |-> make_result2(Len(l.buf_) >= min_occurrence_, l.i1), t |-> l.buf_]

r_ident_t(i1, i2) ==
    LET r == r_pred_t("is_alpha", i1, i2)
    IN  IF r.matched THEN r_predstr_t("is_alnum", r.position, i2) ELSE r

r_end_t(i1, i2) == make_result2(i1 = i2, i1)

r_advance_t(offset_, i1, i2) ==
    LET can_advance == (i2 - i1) >= offset_
    IN  make_result2(can_advance, IF can_advance THEN i1 + offset_ ELSE i1)

----------------------------------------------------------------------------
(* Rule objects and their construction (axe_composite_function.h) *)

Rule(kind, p, sub, arg) == [p |-> p, kind |-> kind, sub |-> sub, arg |-> arg]

NoRule == Rule("none", "", <<>>, <<>>)

(* conversion of an int argument to size_t *)
ToSizeT(n) == n % (2 ^ SizeBits)

(* operator& with its operands forwarded in the wrong order *)
op_and_swapped(r1, r2) == Rule("and", "", <<r2, r1>>, <<>>)

op_and(r1, r2) == Rule("and", "", <<r1, r2>>, <<>>)

(* operator| with its operands forwarded in the wrong order *)
op_or_swapped(r1, r2) == Rule("or", "", <<r2, r1>>, <<>>)

op_or(r1, r2) == Rule("or", "", <<r1, r2>>, <<>>)

r_fail(f) == Rule("fail_wrapper", "", <<>>, <<f>>)

op_or_fail(r1, r2) == Rule("fail", "", <<r1>>, r2.arg)

(* operator^ building the ordered choice *)
op_xor_or(r1, r2) == Rule("or", "", <<r1, r2>>, <<>>)

op_xor(r1, r2) == Rule("xor", "", <<r1, r2>>, <<>>)

(* operator! building the optional rule of operator~ *)
op_not_opt(r) == Rule("opt", "", <<r>>, <<>>)

op_not(r) == Rule("not", "", <<r>>, <<>>)

op_opt(r) == Rule("opt", "", <<r>>, <<>>)

r_empty == Rule("empty", "", <<>>, <<>>)

op_star(r) == Rule("many", "", <<r, r_empty>>, <<0, ToSizeT(-1)>>)

(* operator+ with the minimum of operator* *)
op_plus_zero(r) == Rule("many", "", <<r, r_empty>>, <<0, ToSizeT(-1)>>)

op_plus(r) == Rule("many", "", <<r, r_empty>>, <<1, ToSizeT(-1)>>)

(* r_many with the occurrence bounds forwarded in the wrong order *)
r_many_swapped(r, s, min_occurrence, max_occurrence) ==
    Rule("many", "", <<r, s>>, <<max_occurrence, min_occurrence>>)

r_many(r, s, min_occurrence, max_occurrence) ==
    Rule("many", "", <<r, s>>, <<min_occurrence, max_occurrence>>)

r_many_nosep(r, min_occurrence, max_occurrence) ==
    Rule("many", "", <<r, r_empty>>, <<min_occurrence, max_occurrence>>)

op_mod(r1, r2) == r_many(r1, r2, 1, ToSizeT(-1))

op_minus(r1, r2) == Rule("and", "", <<Rule("not", "", <<r2>>, <<>>), r1>>, <<>>)

r_ref(r) == Rule("ref", "", <<r>>, <<>>)

r_find(r) == Rule("find", "", <<r>>, <<>>)

(* r_select with the two branches forwarded in the wrong order *)
r_select_swapped(r1, r2, r3) == Rule("select", "", <<r1, r3, r2>>, <<>>)

r_select(r1, r2, r3) == Rule("select", "", <<r1, r2, r3>>, <<>>)

(* r_test building the reference rule of r_ref *)
r_test_ref(r) == Rule("ref", "", <<r>>, <<>>)

r_test(r) == Rule("test", "", <<r>>, <<>>)

----------------------------------------------------------------------------
(* Evaluation.  m is the caller's storage [v, arr, buf] together with the  *)
(* log of invocations: <<path, i1>> for the rule at child-index path       *)
(* invoked at i1 (child 0 of a fail rule is its hook).                     *)

With(r, m) ==
    [matched |-> r.matched, position |-> r.position, start |-> r.start, m |-> m]

Logged(m, path, i1) == [m EXCEPT !.log = Append(@, <<path, i1>>)]

Storage(m) == <<m.v, m.arr, m.buf>>

RECURSIVE Eval(_, _, _, _, _)

r_and_t(r1_, r2_, path, i1, i2, m) ==
    LET a == Eval(r1_, Append(path, 1), i1, i2, m)
    IN  IF a.matched
        THEN LET b == Eval(r2_, Append(path, 2), a.position, i2, a.m)
             IN  With(make_result3(b.matched, b.position, i1), b.m)
        ELSE With(make_result3(FALSE, a.position, i1), a.m)

(* r_or_t handing back the second alternative's result as it is *)
r_or_t_raw(r1_, r2_, path, i1, i2, m) ==
    LET a == Eval(r1_, Append(path, 1), i1, i2, m)
    IN  IF a.matched THEN a ELSE Eval(r2_, Append(path, 2), i1, i2, a.m)

r_or_t(r1_, r2_, path, i1, i2, m) ==
    LET a == Eval(r1_, Append(path, 1), i1, i2, m)
    IN  IF a.matched
        THEN With(make_result3(TRUE, a.position, i1), a.m)
        ELSE LET b == Eval(r2_, Append(path, 2), i1, i2, a.m)
             IN  With(make_result3(b.matched, b.position, i1), b.m)

r_fail_t(r_, f_, path, i1, i2, m) ==
    LET a == Eval(r_, Append(path, 1), i1, i2, m)
    IN  IF a.matched
        THEN With(make_result3(TRUE, a.position, i1), a.m)
        ELSE With(make_result3(FALSE, a.position, i1),
                  Logged(a.m, Append(path, 0), i1))

r_xor_t(r1_, r2_, path, i1, i2, m) ==
    LET a == Eval(r1_, Append(path, 1), i1, i2, m)
        b == Eval(r2_, Append(path, 2), i1, i2, a.m)
    IN  With(make_result3(a.matched # b.matched,
                          IF a.matched THEN a.position ELSE b.position, i1), b.m)

r_not_t(r_, path, i1, i2, m) ==
    LET a == Eval(r_, Append(path, 1), i1, i2, m)
    IN  With(make_result2(~a.matched, i1), a.m)

r_opt_t(r_, path, i1, i2, m) ==
    LET a == Eval(r_, Append(path, 1), i1, i2, m)
    IN  With(make_result2(TRUE, IF a.matched THEN a.position ELSE i1), a.m)

(* one repetition: the separator (from the second repetition on), then r.  *)
(* A repetition after the first that leaves cursor and storage as it found *)
(* them is repeated unchanged until max_occurrence_, so count jumps there  *)
(* (the log then holds one such repetition only).                          *)
RECURSIVE ManyLoop(_, _, _, _, _, _, _, _)
ManyLoop(r_, separator_, max_occurrence_, count, pos, path, i2, m) ==
    IF count >= max_occurrence_ THEN [count |-> count, pos |-> pos, m |-> m]
    ELSE LET s == IF count = 0 THEN With(make_result2(TRUE, pos), m)
                  ELSE Eval(separator_, Append(path, 2), pos, i2, m)
         IN  IF ~s.matched THEN [count |-> count, pos |-> pos, m |-> s.m]
             ELSE LET a == Eval(r_, Append(path, 1), s.position, i2, s.m)
                  IN  IF ~a.matched THEN [count |-> count, pos |-> pos, m |-> a.m]
                      ELSE IF count > 0 /\ a.position = pos
                              /\ Storage(a.m) = Storage(m)
                      THEN [count |-> max_occurrence_, pos |-> pos, m |-> a.m]
                      ELSE ManyLoop(r_, separator_, max_occurrence_, count + 1,
                                    a.position, path, i2, a.m)

r_many_t(r_, separator_, min_occurrence_, max_occurrence_, path, i1, i2, m) ==
    LET l == ManyLoop(r_, separator_, max_occurrence_, 0, i1, path, i2, m)
    IN  With(make_result3(l.count >= min_occurrence_ /\ l.count <= max_occurrence_,
                          l.pos, i1), l.m)

r_ref_t(r_, path, i1, i2, m) == Eval(r_, Append(path, 1), i1, i2, m)

RECURSIVE FindLoop(_, _, _, _, _)
FindLoop(r_, i, path, i2, m) ==
    IF i = i2 THEN With(make_result2(FALSE, i), m)
    ELSE LET a == Eval(r_, Append(path, 1), i, i2, m)
         IN  IF a.matched THEN a ELSE FindLoop(r_, i + 1, path, i2, a.m)

r_find_t(r_, path, i1, i2, m) ==
    LET a == FindLoop(r_, i1, path, i2, m)
    IN  With(make_result3(a.matched, a.position, i1), a.m)

r_select_t(r1_, r2_, r3_, path, i1, i2, m) ==
    LET a == Eval(r1_, Append(path, 1), i1, i2, m)
    IN  IF a.matched
        THEN LET b == Eval(r2_, Append(path, 2), a.position, i2, a.m)
             IN  With(make_result3(b.matched, b.position, i1), b.m)
        ELSE LET c == Eval(r3_, Append(path, 3), i1, i2, a.m)
             IN  With(make_result3(c.matched, c.position, i1), c.m)

r_test_t(r_, path, i1, i2, m) ==
    LET a == Eval(r_, Append(path, 1), i1, i2, m)
    IN  With(make_result2(a.matched, i1), a.m)

Eval(r, path, i1, i2, m0) ==
    LET m == Logged(m0, path, i1)
        k == r.kind
    IN  CASE k = "bool" -> With(r_bool_t(r.arg[1], i1, i2), m)
          [] k = "empty" -> With(r_empty_t(i1, i2), m)
          [] k = "char" -> With(r_char_t(r.arg[1], i1, i2), m)
          [] k = "token" -> With(r_token_t(r.arg[1], i1, i2), m)
          [] k = "bin" -> With(r_bin_t(r.arg, i1, i2), m)
          [] k = "str" -> With(r_str_t(r.arg, i1, i2), m)
          [] k = "pred" -> With(r_pred_t(r.p, i1, i2), m)
          [] k = "predstr" -> With(r_predstr_t(r.p, i1, i2), m)
          [] k = "predstr_n" ->
                With(r_predstr_n_t(r.p, r.arg[1], r.arg[2], i1, i2), m)
          [] k = "var" ->
                LET x == r_var_t(m.v, i1, i2)
                IN  With(x.r, [m EXCEPT !.v = x.t])
          [] k = "array" ->
                LET x == r_array_t(m.arr, i1, i2)
                IN  With(x.r, [m EXCEPT !.arr = x.t])
          [] k = "sequence" ->
                LET x == r_sequence_t(m.buf, r.arg[1], r.arg[2], r.arg[3], i1, i2)
                IN  With(x.r, [m EXCEPT !.buf = x.t])
          [] k = "ident" -> With(r_ident_t(i1, i2), m)
          [] k = "end" -> With(r_end_t(i1, i2), m)
          [] k = "advance" -> With(r_advance_t(r.arg[1], i1, i2), m)
          [] k = "and" -> r_and_t(r.sub[1], r.sub[2], path, i1, i2, m)
          [] k = "or" -> r_or_t(r.sub[1], r.sub[2], path, i1, i2, m)
          [] k = "fail" -> r_fail_t(r.sub[1], r.arg[1], path, i1, i2, m)
          [] k = "xor" -> r_xor_t(r.sub[1], r.sub[2], path, i1, i2, m)
          [] k = "not" -> r_not_t(r.sub[1], path, i1, i2, m)
          [] k = "opt" -> r_opt_t(r.sub[1], path, i1, i2, m)
          [] k = "many" ->
                r_many_t(r.sub[1], r.sub[2], r.arg[1], r.arg[2], path, i1, i2, m)
          [] k = "ref" -> r_ref_t(r.sub[1], path, i1, i2, m)
          [] k = "find" -> r_find_t(r.sub[1], path, i1, i2, m)
          [] k = "select" ->
                r_select_t(r.sub[1], r.sub[2], r.sub[3], path, i1, i2, m)
          [] k = "test" -> r_test_t(r.sub[1], path, i1, i2, m)

----------------------------------------------------------------------------
(* The caller: owns the element buffer, the range [begin, end) handed to a *)
(* rule, and the storage v (a variable of Len(v) bytes), arr (an array of  *)
(* ArrLen elements of ElemSize bytes) and buf (a growable sequence) that   *)
(* binary read rules are bound to.  pc = "idle": no call in progress;      *)
(* pc = "done": rule, built by the caller's expression expr (the operator  *)
(* or function and its operands), was invoked on (begin, end) and returned *)
(* res.                                                                    *)

Char(t) == Rule("char", "", <<>>, <<t>>)
Token(t) == Rule("token", "", <<>>, <<t>>)
Bin(t) == Rule("bin", "", <<>>, t)
Str(t) == Rule("str", "", <<>>, t)
PredOne(p) == Rule("pred", p, <<>>, <<>>)
PredStr(p) == Rule("predstr", p, <<>>, <<>>)
PredStrN(p, lo, hi) == Rule("predstr_n", p, <<>>, <<lo, hi>>)
Probe(b) == Rule("bool", "", <<>>, <<b>>)
Ident == Rule("ident", "", <<>>, <<>>)
End == Rule("end", "", <<>>, <<>>)
Advance(n) == Rule("advance", "", <<>>, <<n>>)
Var == Rule("var", "", <<>>, <<>>)
Array == Rule("array", "", <<>>, <<>>)
Sequence(size, lo, hi) == Rule("sequence", "", <<>>, <<size, lo, hi>>)

Preds == {"is_alpha", "is_alnum", "is_digit"}

(* offsets of r_advance_t: OffsetT is any type convertible to the signed    *)
(* difference_type; a negative offset is used only where the caller's       *)
(* buffer has that many elements before i1                                  *)
Offsets == (-1)..MaxOcc
Literals == SeqsUpTo(Alphabet, 2)

Expr(op, args) == [op |-> op, args |-> args]

NoExpr == Expr("", <<>>)

NoRes == [matched |-> FALSE, position |-> 0, start |-> 0]

Init ==
    /\ input \in Inputs
    /\ begin \in 0..Len(input)
    /\ end = Len(input)
    /\ pc = "idle"
    /\ expr = NoExpr
    /\ rule = NoRule
    /\ res = NoRes
    /\ v \in {Zeros(n) : n \in 1..MaxVarSize}
    /\ arr = [k \in 1..ArrLen |-> Zeros(ElemSize)]
    /\ buf = <<>>
    /\ seq = NoRule
    /\ log = <<>>

(* the caller's variable is VarSize bytes wide *)
InitFixed == Init /\ Len(v) = VarSize

Invoke(op, args, r) ==
    /\ pc = "idle"
    /\ expr' = Expr(op, args)
    /\ LET e == Eval(r, <<>>, begin, end,
                     [v |-> v, arr |-> arr, buf |-> buf, log |-> <<>>])
       IN  /\ rule' = r
           /\ res' = [matched |-> e.matched, position |-> e.position,
                      start |-> e.start]
           /\ v' = e.m.v
           /\ arr' = e.m.arr
           /\ buf' = e.m.buf
           /\ log' = e.m.log
    /\ pc' = "done"
    /\ UNCHANGED <<input, begin, end, seq>>

(* the caller takes the result and is ready for the next call *)
Return ==
    /\ pc = "done"
    /\ pc' = "idle"
    /\ expr' = NoExpr
    /\ rule' = NoRule
    /\ res' = NoRes
    /\ log' = <<>>
    /\ UNCHANGED <<input, begin, end, v, arr, buf, seq>>

(* the caller takes the result and parses on from the position returned *)
Continue ==
    /\ pc = "done"
    /\ res.position # begin
    /\ begin' = res.position
    /\ pc' = "idle"
    /\ expr' = NoExpr
    /\ rule' = NoRule
    /\ res' = NoRes
    /\ log' = <<>>
    /\ UNCHANGED <<input, end, v, arr, buf, seq>>

(* r_sequence_t's constructor binds the container and clears it *)
NewSequence ==
    /\ pc = "idle"
    /\ \E size \in 1..ElemSize, lo \in 0..MaxOcc, hi \in 0..MaxOcc :
          seq' = Sequence(size, lo, hi)
    /\ buf' = <<>>
    /\ UNCHANGED <<input, begin, end, pc, expr, rule, res, v, arr, log>>

ParseBool == \E b \in {0, 1} : Invoke("terminal", <<>>, Probe(b))
ParseEmpty == Invoke("terminal", <<>>, r_empty)
ParseChar == \E t \in Alphabet : Invoke("terminal", <<>>, Char(t))
ParseToken == \E t \in Alphabet : Invoke("terminal", <<>>, Token(t))
ParseBin == \E t \in Literals \ {<<>>} : Invoke("terminal", <<>>, Bin(t))
ParseStr == \E t \in Literals : Invoke("terminal", <<>>, Str(t))
ParsePred == \E p \in Preds : Invoke("terminal", <<>>, PredOne(p))
ParsePredStr == \E p \in Preds : Invoke("terminal", <<>>, PredStr(p))
ParsePredStrN ==
    \E p \in Preds, lo \in 0..MaxOcc, hi \in 0..MaxOcc : Invoke("terminal", <<>>, PredStrN(p, lo, hi))
ParseIdent == Invoke("terminal", <<>>, Ident)
ParseEnd == Invoke("terminal", <<>>, End)
ParseAdvance ==
    \E n \in Offsets : begin + n >= 0 /\ Invoke("terminal", <<>>, Advance(n))
ParseVar == Invoke("terminal", <<>>, Var)
ParseArray == Invoke("terminal", <<>>, Array)
ParseSequence == seq # NoRule /\ Len(buf) < MaxBuf /\ Invoke("terminal", <<>>, seq)

Next ==
    \/ ParseBool
    \/ ParseEmpty
    \/ ParseChar
    \/ ParseToken
    \/ ParseBin
    \/ ParseStr
    \/ ParsePred
    \/ ParsePredStr
    \/ ParsePredStrN
    \/ ParseIdent
    \/ ParseEnd
    \/ ParseAdvance
    \/ ParseVar
    \/ Return
    \/ Continue

(* every terminal but the array and sequence reads *)
Spec == InitFixed /\ [][Next]_vars

(* binary-variable-read alone, into variables of 1..MaxVarSize bytes *)
NextVar ==
    \/ ParseVar
    \/ Return
    \/ Continue

SpecVar == Init /\ [][NextVar]_vars

NextArray ==
    \/ ParseArray
    \/ Return
    \/ Continue

SpecArray == InitFixed /\ [][NextArray]_vars

NextSequence ==
    \/ NewSequence
    \/ ParseSequence
    \/ Return
    \/ Continue

SpecSequence == InitFixed /\ [][NextSequence]_vars

----------------------------------------------------------------------------
(* Composite rules built with the operators and free functions over the    *)
(* sub-rules below: consuming terminals, zero-width terminals, the two     *)
(* terminals that can fail past their start (Var, Ident) and composites.   *)

Leaf ==
    {Char(97), Char(61), Str(<<97, 97>>), Var, Ident, r_empty,
     PredStrN("is_digit", 1, ToSizeT(-1))}

Sub ==
    Leaf \cup {op_not(Char(97)), op_opt(Var), r_test(Char(97)),
               op_and(Ident, Char(61))}

Right == {Char(97), Char(61), Str(<<97, 97>>), Var, PredStrN("is_digit", 1, ToSizeT(-1))}

Reps == {Char(97), Var}

Seps == {r_empty, Char(61)}

Hooks == {1}

(* the occurrence bounds of an r_many call, carried among its operands *)
Bounds(lo, hi) == Rule("bounds", "", <<>>, <<lo, hi>>)

ParseAnd == \E r1 \in Sub, r2 \in Right : Invoke("&", <<r1, r2>>, op_and(r1, r2))
ParseOr == \E r1 \in Sub, r2 \in Right : Invoke("|", <<r1, r2>>, op_or(r1, r2))
ParseOrFail == \E r1 \in Sub, f \in Hooks : Invoke("|fail", <<r1, r_fail(f)>>, op_or_fail(r1, r_fail(f)))
ParseXor == \E r1 \in Sub, r2 \in Right : Invoke("^", <<r1, r2>>, op_xor(r1, r2))
ParseNot == \E r \in Sub : Invoke("!", <<r>>, op_not(r))
ParseOpt == \E r \in Sub : Invoke("~", <<r>>, op_opt(r))
ParseStar == \E r \in Sub : Invoke("*", <<r>>, op_star(r))
ParsePlus == \E r \in Sub : Invoke("+", <<r>>, op_plus(r))
ParseMod == \E r1 \in Leaf, r2 \in Seps : Invoke("%", <<r1, r2>>, op_mod(r1, r2))
ParseMinus == \E r1 \in Sub, r2 \in Right : Invoke("-", <<r1, r2>>, op_minus(r1, r2))
ParseMany ==
    \E r \in Reps, s \in Seps, lo \in 0..MaxOcc, hi \in 0..MaxOcc :
        Invoke("r_many", <<r, s, Bounds(lo, hi)>>, r_many(r, s, lo, hi))
ParseManyNoSep ==
    \E r \in Reps, lo \in 0..MaxOcc, hi \in 0..MaxOcc :
        Invoke("r_many", <<r, r_empty, Bounds(lo, hi)>>, r_many_nosep(r, lo, hi))
ParseRef == \E r \in Sub : Invoke("r_ref", <<r>>, r_ref(r))
ParseFind == \E r \in Sub : Invoke("r_find", <<r>>, r_find(r))
ParseSelect ==
    \E r1 \in Leaf, r2 \in Reps, r3 \in Reps : Invoke("r_select", <<r1, r2, r3>>, r_select(r1, r2, r3))
ParseTest == \E r \in Sub : Invoke("r_test", <<r>>, r_test(r))

NextComposite ==
    \/ ParseAnd
    \/ ParseOr
    \/ ParseOrFail
    \/ ParseXor
    \/ ParseNot
    \/ ParseOpt
    \/ ParseStar
    \/ ParsePlus
    \/ ParseMod
    \/ ParseMinus
    \/ ParseMany
    \/ ParseManyNoSep
    \/ ParseRef
    \/ ParseFind
    \/ ParseSelect
    \/ ParseTest

(* one call of a composite *)
SpecComposite == InitFixed /\ [][NextComposite]_vars

----------------------------------------------------------------------------
(* Properties of the terminal rules (specification Spec) *)

Done == pc = "done"

TerminalKinds ==
    {"bool", "empty", "char", "token", "bin", "str", "pred", "predstr",
     "predstr_n", "var", "array", "sequence", "ident", "end", "advance"}

(* the end of the longest run of elements satisfying p that starts at from *)
IsRunEnd(p, from, q) ==
    /\ q \in from..end
    /\ \A j \in from..(q - 1) : Pred(p, At(j))
    /\ q = end \/ ~Pred(p, At(q))

(* C1: a terminal rule that reports matched = false returns the position   *)
(* it was given: no input is consumed on failure.                          *)
C1_NoConsumptionOnFailure ==
    (Done /\ rule.kind \in TerminalKinds /\ ~res.matched) => res.position = begin

(* C8 as claimed: the unbounded predicate-run always succeeds, also on an  *)
(* empty run.                                                              *)
C8_PredStrAlwaysSucceeds ==
    (Done /\ rule.kind = "predstr") =>
        res.matched /\ IsRunEnd(rule.p, begin, res.position)

(* C8 amended: the unbounded predicate-run succeeds iff the run of         *)
(* satisfying elements starting at i1 is not empty; it then ends just past *)
(* the longest such run, and on an empty run it fails at i1.               *)
C8_PredStrNonEmptyRun ==
    (Done /\ rule.kind = "predstr") =>
        /\ res.matched <=> (begin # end /\ Pred(rule.p, At(begin)))
        /\ res.matched => IsRunEnd(rule.p, begin, res.position)
        /\ ~res.matched => res.position = begin

C8_Witness ==
    /\ Done /\ rule.kind = "predstr"
    /\ res.matched /\ res.position > begin + 1 /\ res.position < end

(* C9: identifier matches whenever the element at i1 is alphabetic, also a *)
(* single letter followed by a non-alphanumeric element or by the end of   *)
(* input, and consumes the letter and the longest alphanumeric run after   *)
(* it; on "rate=12" it spans "rate".                                       *)
C9_Identifier ==
    (Done /\ rule.kind = "ident") =>
        /\ res.matched <=> (begin # end /\ is_alpha(At(begin)))
        /\ res.matched => IsRunEnd("is_alnum", begin + 1, res.position)
        /\ (input = Rate12 /\ begin = 0) => (res.matched /\ res.position = 4)

(* C10: binary-variable-read of an N-byte variable with k bytes left:      *)
(* k >= N: matches, the variable holds the next N bytes, the position      *)
(* advances by N; k < N: fails, bytes 1..k of the variable are the k input *)
(* bytes and bytes k+1..N keep their value.                                *)
VarCall == pc = "idle" /\ pc' = "done" /\ rule'.kind = "var"

VarRead ==
    LET N == Len(v)
        k == end - begin
    IN  /\ Len(v') = N
        /\ res'.matched <=> k >= N
        /\ k >= N =>
              /\ res'.position = begin + N
              /\ \A j \in 1..N : v'[j] = At(begin + j - 1)
        /\ k < N =>
              /\ \A j \in 1..k : v'[j] = At(begin + j - 1)
              /\ \A j \in (k + 1)..N : v'[j] = v[j]

C10_VarRead == [][VarCall => VarRead]_vars

(* a short read into a variable whose tail holds bytes of an earlier read, *)
(* and the 4-byte field against 2 bytes of input                           *)
C10_Witness ==
    /\ Done /\ rule.kind = "var" /\ ~res.matched
    /\ Len(v) = 4 /\ end - begin = 2
    /\ v[1] = At(begin) /\ v[2] = At(begin + 1) /\ v[3] # 0

(* C11: fixed-array-read into N elements of size bytes with k bytes left    *)
(* matches iff the input holds N full elements (k >= N * size), also when   *)
(* the input runs out in the middle of the last element; it stops at the    *)
(* first failed element-read: the elements after that one keep their value. *)
ArrayCall == pc = "idle" /\ pc' = "done" /\ rule'.kind = "array"

ArrayRead ==
    LET N == Len(arr)
        size == Len(arr[1])
        k == end - begin
        full == k \div size
    IN  /\ res'.matched <=> k >= N * size
        /\ \A j \in 1..N : j <= full => \A b \in 1..size :
              arr'[j][b] = At(begin + (j - 1) * size + b - 1)
        /\ \A j \in 1..N : j > full + 1 => arr'[j] = arr[j]

C11_ArrayRead == [][ArrayCall => ArrayRead]_vars

(* C12: after every invocation of a growable-sequence-read, also a second   *)
(* one of the same rule instance, the target holds exactly the elements     *)
(* that invocation read (the full elements of the input, at most            *)
(* max_occurrence), so its length never exceeds max_occurrence, and the     *)
(* result matches iff that number is at least min_occurrence.               *)
SequenceCall == pc = "idle" /\ pc' = "done" /\ rule'.kind = "sequence"

SequenceRead ==
    LET size == rule'.arg[1]
        min_occurrence == rule'.arg[2]
        max_occurrence == rule'.arg[3]
        full == (end - begin) \div size
        n == IF full < max_occurrence THEN full ELSE max_occurrence
    IN  /\ Len(buf') = n
        /\ Len(buf') <= max_occurrence
        /\ \A j \in 1..n : \A b \in 1..size :
              buf'[j][b] = At(begin + (j - 1) * size + b - 1)
        /\ res'.matched <=> n >= min_occurrence

C12_SequenceClears == [][SequenceCall => SequenceRead]_vars

(* C17: a terminal rule that matches returns a position neither before i1  *)
(* nor past i2; advance-by-offset matches iff at least offset elements      *)
(* remain and then advances by exactly offset; binary-pattern and           *)
(* string-literal compare no element at or beyond i2.                       *)
C17_PositionInRange ==
    (Done /\ rule.kind \in TerminalKinds) =>
        /\ res.matched => (begin <= res.position /\ res.position <= end)
        /\ rule.kind = "advance" =>
              /\ res.matched <=> end - begin >= rule.arg[1]
              /\ res.matched => res.position = begin + rule.arg[1]
        /\ rule.kind \in {"bin", "str"} =>
              MatchLoop(rule.arg, begin # end, 0, begin, end).i <= end

----------------------------------------------------------------------------
(* Properties of the composite rules (specification SpecComposite).  The   *)
(* operands of the caller's expression are evaluated on their own and the  *)
(* composite's result is compared with theirs.                             *)

M0 == [v |-> v, arr |-> arr, buf |-> buf, log |-> <<>>]

(* operand n of the expression invoked at position q *)
Operand(n, q) == Eval(expr.args[n], <<n>>, q, end, M0)

(* the positions at which the composite invoked its sub-rule at path *)
InvokedAt(path) == {log[j][2] : j \in {k \in DOMAIN log : log[k][1] = path}}

RestoringOps == {"&", "|", "^", "-", "r_many", "*", "+", "%", "r_find", "r_select", "|fail"}

AndMatches ==
    res.matched <=>
        (Operand(1, begin).matched /\ Operand(2, Operand(1, begin).position).matched)

AndShortCircuit ==
    IF Operand(1, begin).matched
    THEN InvokedAt(<<2>>) = {Operand(1, begin).position}
    ELSE InvokedAt(<<2>>) = {}

C4_OrderedChoice ==
    (Done /\ expr.op = "|") =>
        /\ Operand(1, begin).matched =>
              /\ res.matched /\ res.position = Operand(1, begin).position
              /\ InvokedAt(<<2>>) = {}
        /\ ~Operand(1, begin).matched =>
              /\ InvokedAt(<<2>>) = {begin}
              /\ res.matched <=> Operand(2, begin).matched
              /\ res.matched => res.position = Operand(2, begin).position
        /\ ~res.matched <=> (~Operand(1, begin).matched /\ ~Operand(2, begin).matched)

(* both alternatives would match, at different positions *)
C4_Witness ==
    /\ Done /\ expr.op = "|"
    /\ Operand(1, begin).matched /\ Operand(2, begin).matched
    /\ Operand(1, begin).position # Operand(2, begin).position

(* C5: !r never moves the position and matches iff r does not match at i1 *)
C5_NotNonConsuming ==
    (Done /\ expr.op = "!") =>
        /\ res.position = begin
        /\ res.matched <=> ~Operand(1, begin).matched

C5_Witness ==
    /\ Done /\ expr.op = "!" /\ ~res.matched
    /\ Operand(1, begin).position > begin

(* r_many: the position after n repetitions of r separated by sep, or -1   *)
(* when r or sep fails before the n-th repetition is complete              *)
RECURSIVE PosAfter(_)
PosAfter(n) ==
    IF n = 0 THEN begin
    ELSE LET q == PosAfter(n - 1)
             s == IF n = 1 THEN q
                  ELSE IF Operand(2, q).matched THEN Operand(2, q).position ELSE -1
         IN  IF q = -1 \/ s = -1 THEN -1
             ELSE IF Operand(1, s).matched THEN Operand(1, s).position ELSE -1

ManyMin == expr.args[3].arg[1]
ManyMax == expr.args[3].arg[2]

(* the repetitions matched: the most that r and sep allow, at most max *)
RepCount ==
    CHOOSE n \in 0..ManyMax :
        PosAfter(n) # -1 /\ (n = ManyMax \/ PosAfter(n + 1) = -1)

ManyCounts ==
    /\ res.matched <=> (ManyMin <= RepCount /\ RepCount <= ManyMax)
    /\ res.matched => res.position = PosAfter(RepCount)
    /\ (input = Aaaa /\ begin = 0 /\ expr.args[1] = Char(97)
          /\ expr.args[2] = r_empty /\ ManyMin = 2 /\ ManyMax = 3)
        => (res.matched /\ res.position = 3)

C7_XorExclusive ==
    (Done /\ expr.op = "^") =>
        /\ InvokedAt(<<1>>) = {begin} /\ InvokedAt(<<2>>) = {begin}
        /\ res.matched <=> (Operand(1, begin).matched # Operand(2, begin).matched)
        /\ (res.matched /\ Operand(1, begin).matched) =>
              res.position = Operand(1, begin).position
        /\ (res.matched /\ Operand(2, begin).matched) =>
              res.position = Operand(2, begin).position

(* both alternatives match: the exclusive choice fails *)
C7_Witness ==
    /\ Done /\ expr.op = "^" /\ ~res.matched
    /\ Operand(1, begin).matched /\ Operand(2, begin).matched
    /\ Operand(1, begin).position > begin

(* the number of times the composite invoked its sub-rule at path *)
Invocations(path) == Cardinality({k \in DOMAIN log : log[k][1] = path})

(* the caller's expression replaced by the rule r, invoked on the same range *)
Instead(r) == Eval(r, <<>>, begin, end, M0)

SameOutcome(r) ==
    /\ res.matched = Instead(r).matched
    /\ res.position = Instead(r).position

(* C13: r_select(probe, then, else) invokes probe exactly once, at i1; when *)
(* probe matches the result is that of probe & then and else is never       *)
(* invoked; when probe fails, else is invoked at i1 and decides the result, *)
(* and then is never invoked; the outcome is that of                        *)
(* (!probe & else) | (probe & then).                                        *)
C13_Select ==
    (Done /\ expr.op = "r_select") =>
        LET probe == expr.args[1]
            then == expr.args[2]
            else == expr.args[3]
            p == Operand(1, begin)
        IN  /\ Invocations(<<1>>) = 1 /\ InvokedAt(<<1>>) = {begin}
            /\ p.matched =>
                  /\ SameOutcome(op_and(probe, then))
                  /\ Invocations(<<2>>) = 1 /\ InvokedAt(<<2>>) = {p.position}
                  /\ Invocations(<<3>>) = 0
            /\ ~p.matched =>
                  /\ Invocations(<<3>>) = 1 /\ InvokedAt(<<3>>) = {begin}
                  /\ Invocations(<<2>>) = 0
                  /\ res.matched <=> Operand(3, begin).matched
                  /\ res.matched => res.position = Operand(3, begin).position
            /\ SameOutcome(op_or(op_and(op_not(probe), else), op_and(probe, then)))

(* a literal probe on input that does not start with it: the else-branch,   *)
(* a rule other than the then-branch, matches from i1                      *)
C13_Witness ==
    /\ Done /\ expr.op = "r_select"
    /\ expr.args[1] = Str(<<97, 97>>) /\ ~Operand(1, begin).matched
    /\ expr.args[2] # expr.args[3]
    /\ res.matched /\ res.position > begin

(* C14: r_test(r) invokes r at i1, so that r's writes to the caller's       *)
(* storage happen, and returns the position i1 whether r matched or not.    *)
TestCall == pc = "idle" /\ pc' = "done" /\ expr'.op = "r_test"

TestRun ==
    LET a == Eval(expr'.args[1], <<1>>, begin, end, M0)
    IN  /\ res'.position = begin
        /\ <<v', arr', buf'>> = Storage(a.m)
        /\ Cardinality({k \in DOMAIN log' : log'[k][1] = <<1>>}) = 1
        /\ \A k \in DOMAIN log' : log'[k][1] = <<1>> => log'[k][2] = begin

C14_TestNeverCommits == [][TestCall => TestRun]_vars

(* the tested rule matched, consumed input and wrote the variable *)
C14_Witness ==
    /\ Done /\ expr.op = "r_test" /\ res.matched
    /\ Operand(1, begin).matched /\ Operand(1, begin).position > begin
    /\ v # Zeros(Len(v))
    /\ res.position = begin

RECURSIVE RepEnd(_)
RepEnd(q) ==
    LET a == Operand(1, q)
    IN  IF a.matched /\ a.position > q THEN RepEnd(a.position) ELSE q

Unbounded == ToSizeT(-1)

(* C16: *r has the outcome of r_many(r, empty, 0, unbounded) and succeeds   *)
(* on every input; +r has the outcome of r_many(r, empty, 1, unbounded) and *)
(* matches iff r matches at i1; r % s has the outcome of                    *)
(* r_many(r, s, 1, unbounded); the empty separator matches at every         *)
(* position without moving the cursor.                                      *)
C16_RepetitionOperators ==
    /\ (Done /\ expr.op = "*") =>
          /\ SameOutcome(r_many(expr.args[1], r_empty, 0, Unbounded))
          /\ res.matched /\ res.position = RepEnd(begin)
    /\ (Done /\ expr.op = "+") =>
          /\ SameOutcome(r_many(expr.args[1], r_empty, 1, Unbounded))
          /\ res.matched <=> Operand(1, begin).matched
          /\ res.position = IF res.matched THEN RepEnd(begin) ELSE begin
    /\ (Done /\ expr.op = "%") =>
          SameOutcome(r_many(expr.args[1], expr.args[2], 1, Unbounded))
    /\ (Done /\ expr.op \in {"*", "+"}) =>
          \A q \in InvokedAt(<<2>>) :
              r_empty_t(q, end).matched /\ r_empty_t(q, end).position = q

(* +'a' matched two repetitions and stopped before the end of the input *)
C16_Witness ==
    /\ Done /\ expr.op = "+" /\ expr.args[1] = Char(97)
    /\ res.matched /\ res.position = begin + 2 /\ res.position < end
    /\ InvokedAt(<<2>>) = {begin + 1, begin + 2}

====
